---------------------------- MODULE Spec2Model ----------------------------
(***************************************************************************)
(* Model of the publish pipeline of devto-article-cli: the change-set      *)
(* resolver (getPublishableMarkdownFiles and its three signals), the       *)
(* per-document publish loop of publishArticle, and the git finalizer      *)
(* (gitAddAll, gitCommit, gitPush).                                        *)
(***************************************************************************)
EXTENDS Integers, Sequences, FiniteSets, TLC

(***************************************************************************)
(* Bounds of the model.                                                    *)
(***************************************************************************)
MaxRuns == 2        \* invocations of publishArticle in one behaviour
MaxFaults == 1      \* injected failures (read, API, write, git) per behaviour
FirstNewId == 11    \* first identifier the remote service hands out

\* The documents of the content directory, in directory (path) order.
DocOrder == <<"articles/a.md", "articles/b.md">>
Docs == {DocOrder[i] : i \in 1..Len(DocOrder)}

(***************************************************************************)
(* Front-matter values.  A YAML scalar is a number or a string (a sequence *)
(* of one-character strings); a missing key reads as undefined.            *)
(***************************************************************************)
Undefined == [kind |-> "undefined", num |-> 0, str |-> <<>>]
Num(n) == [kind |-> "num", num |-> n, str |-> <<>>]
Str(s) == [kind |-> "str", num |-> 0, str |-> s]

\* JavaScript truthiness of a front-matter value: undefined, 0 and "" are falsy.
Truthy(v) ==
    \/ v.kind = "num" /\ v.num # 0
    \/ v.kind = "str" /\ v.str # <<>>

DigitChars == <<"0", "1", "2", "3", "4", "5", "6", "7", "8", "9">>

RECURSIVE Digits(_)
Digits(n) == IF n < 10 THEN <<DigitChars[n + 1]>>
             ELSE Digits(n \div 10) \o <<DigitChars[(n % 10) + 1]>>

\* String(v) of JavaScript for a number or a string.
String(v) ==
    IF v.kind = "num"
    THEN (IF v.num < 0 THEN <<"-">> \o Digits(0 - v.num) ELSE Digits(v.num))
    ELSE v.str

IsDigit(c) == \E i \in 1..10 : DigitChars[i] = c
DigitVal(c) == (CHOOSE i \in 1..10 : DigitChars[i] = c) - 1

RECURSIVE SkipSpaces(_)
SkipSpaces(s) == IF s # <<>> /\ Head(s) = " " THEN SkipSpaces(Tail(s)) ELSE s

RECURSIVE DigitPrefix(_, _)
\* value of the longest prefix of s made of digits, acc the value read so far
DigitPrefix(s, acc) ==
    IF s # <<>> /\ IsDigit(Head(s))
    THEN DigitPrefix(Tail(s), acc * 10 + DigitVal(Head(s)))
    ELSE acc

\* parseInt(s, 10): optional white space, optional sign, then the longest run
\* of digits; NaN when there is no digit.
parseInt(s) ==
    LET t == SkipSpaces(s)
        neg == t # <<>> /\ Head(t) = "-"
        u == IF t # <<>> /\ Head(t) \in {"-", "+"} THEN Tail(t) ELSE t
    IN IF u = <<>> \/ ~IsDigit(Head(u))
       THEN [nan |-> TRUE, val |-> 0]
       ELSE [nan |-> FALSE, val |-> IF neg THEN 0 - DigitPrefix(u, 0) ELSE DigitPrefix(u, 0)]

(***************************************************************************)
(* Front matter: the ordered key/value pairs of a document's header.       *)
(***************************************************************************)
HasKey(fm, key) == \E i \in 1..Len(fm) : fm[i].k = key

Get(fm, key) ==
    IF HasKey(fm, key)
    THEN fm[CHOOSE i \in 1..Len(fm) : fm[i].k = key].v
    ELSE Undefined

\* mutant: the assignment drops the key instead of setting it
SetKeyDropping(fm, key, val) ==
    SelectSeq(fm, LAMBDA f : f.k # key)

\* fm[key] = val of a JavaScript object: an existing key keeps its place, a
\* new key is appended.
SetKey(fm, key, val) ==
    IF HasKey(fm, key)
    THEN [i \in 1..Len(fm) |-> IF fm[i].k = key THEN [k |-> key, v |-> val] ELSE fm[i]]
    ELSE Append(fm, [k |-> key, v |-> val])

Field(key, val) == [k |-> key, v |-> val]

(***************************************************************************)
(* Documents.  A file is its front matter and its body; the body is a      *)
(* sequence of pieces: text, an image with a local path, an image with an  *)
(* http(s) URL, an image already pointing at raw.githubusercontent.com.    *)
(***************************************************************************)
File(fm, body) == [fm |-> fm, body |-> body]

\* matter(fileContentString): {data, content}
matter(file) == [data |-> file.fm, content |-> file.body]

\* matter.stringify(content, data)
stringify(content, data) == File(data, content)

TitleT == Field("title", Str(<<"T">>))
TagsX == Field("tags", Str(<<"x">>))

\* a never-published draft, and an article published as number 7
Draft == File(<<TitleT, TagsX>>, <<"text", "img_local">>)
Published == File(<<TitleT, Field("dev_to_article_id", Num(7)), TagsX>>,
                  <<"img_local", "img_http">>)

\* documents without a usable title, or with an unusual identifier
OddKinds == {
    File(<<TagsX>>, <<"text">>),
    File(<<Field("title", Str(<<>>)), TagsX>>, <<"img_local">>),
    File(<<TitleT, Field("dev_to_article_id", Str(<<"a", "b", "c">>))>>, <<"text">>),
    File(<<TitleT, Field("dev_to_article_id", Num(0 - 5))>>, <<"text">>),
    File(<<TitleT, Field("dev_to_article_id", Num(0))>>, <<"text">>),
    File(<<Field("dev_to_article_id", Str(<<"1", "2">>)), TitleT>>, <<"img_local">>) }

DocKinds == {Draft, Published} \cup OddKinds

\* What a document starts as: its content, whether its committed state
\* differs from the remote branch, whether the working tree has changes to it.
InitialDocs ==
    [file : {Draft, Published}, unpushed : BOOLEAN, dirty : BOOLEAN]
    \cup [file : OddKinds, unpushed : {FALSE}, dirty : {TRUE}]

(***************************************************************************)
(* Repository information (getRepoInfo): null fields are "".               *)
(***************************************************************************)
RepoInfoOk == [user |-> "kinginu", repo |-> "devto-article-cli", branch |-> "main"]
RepoInfoNull == [user |-> "", repo |-> "", branch |-> ""]

\* what getRepoInfo meets: whether git remote get-url and git rev-parse
\* succeed, the form of the URL, and the GITHUB_REPOSITORY variable
RepoEnvs ==
    [urlOk : BOOLEAN, url : {"ssh", "https", "other"},
     env : {"unset", "owner/repo", "malformed"}, branchOk : BOOLEAN, upstreamOk : BOOLEAN]

\* mutant: getRepoInfo without its outer try block
getRepoInfoThrowing(e) ==
    IF ~e.urlOk \/ (e.url = "other" /\ e.env = "unset") \/ ~e.branchOk
    THEN [threw |-> TRUE, user |-> "", repo |-> "", branch |-> "", remoteBranch |-> ""]
    ELSE [threw |-> FALSE,
          user |-> IF e.url = "other" /\ e.env = "malformed" THEN "" ELSE RepoInfoOk.user,
          repo |-> IF e.url = "other" /\ e.env = "malformed" THEN "" ELSE RepoInfoOk.repo,
          branch |-> RepoInfoOk.branch,
          remoteBranch |-> IF e.upstreamOk THEN "origin/main" ELSE ""]

\* getRepoInfo: the remote URL, owner and repository from it or from
\* GITHUB_REPOSITORY, the branch, the upstream; the catch returns nulls
getRepoInfo(e) ==
    LET nulls == [threw |-> FALSE, user |-> "", repo |-> "", branch |-> "",
                  remoteBranch |-> ""]
        fromUrl == e.url \in {"ssh", "https"}
        fromEnv == ~fromUrl /\ e.env = "owner/repo"
    IN IF ~e.urlOk THEN nulls
       ELSE IF ~fromUrl /\ e.env = "unset" THEN nulls
       ELSE IF ~e.branchOk THEN nulls
       ELSE [threw |-> FALSE,
             user |-> IF fromUrl \/ fromEnv THEN RepoInfoOk.user ELSE "",
             repo |-> IF fromUrl \/ fromEnv THEN RepoInfoOk.repo ELSE "",
             branch |-> RepoInfoOk.branch,
             remoteBranch |-> IF e.upstreamOk THEN "origin/main" ELSE ""]

\* mutant: the check of the repository information is left out
RepoInfoMissingNever(info) == FALSE

\* if (!repoInfo.user || !repoInfo.repo || !repoInfo.branch)
RepoInfoMissing(info) == info.user = "" \/ info.repo = "" \/ info.branch = ""

\* mutant: local image paths are rewritten whatever the repository information
convertLocalPathsAlways(markdownContent, info) ==
    [i \in 1..Len(markdownContent) |->
        IF markdownContent[i] = "img_local" THEN "img_github" ELSE markdownContent[i]]

\* convertLocalPathsToGitHubUrls(markdownContent, markdownFilePath, repoInfo)
convertLocalPathsToGitHubUrls(markdownContent, info) ==
    IF info.user = "" \/ info.repo = "" \/ info.branch = ""
    THEN markdownContent
    ELSE [i \in 1..Len(markdownContent) |->
            IF markdownContent[i] = "img_local" THEN "img_github" ELSE markdownContent[i]]

(***************************************************************************)
(* The change-set resolver.                                                *)
(***************************************************************************)
\* the documents of a set, as a list in path order
SeqOf(S) == SelectSeq(DocOrder, LAMBDA d : d \in S)

Range(s) == {s[i] : i \in 1..Len(s)}

\* the outcome of one signal: it threw, or it returned a list of paths
Threw == [threw |-> TRUE, files |-> <<>>]
Returned(files) == [threw |-> FALSE, files |-> files]

\* one git command of signal A, the ref it names and whether it succeeded
Cmd(cmd, ref, ok) == [cmd |-> cmd, ref |-> ref, ok |-> ok]

\* what rev-parse prints for the configured upstream of the current branch
UpstreamBranch == "origin/topic"

\* the outcome of a signal together with the git commands it issued
After(cmds, outcome) == [threw |-> outcome.threw, files |-> outcome.files, git |-> cmds]

\* mutant: origin/master is verified before origin/main
resolveRemoteBranchMasterFirst(upstreamOk, mainOk, masterOk) ==
    IF upstreamOk
    THEN [branch |-> UpstreamBranch,
          cmds |-> <<Cmd("rev-parse", "@{upstream}", TRUE)>>]
    ELSE IF masterOk
    THEN [branch |-> "origin/master",
          cmds |-> <<Cmd("rev-parse", "@{upstream}", FALSE),
                     Cmd("rev-parse", "origin/master", TRUE)>>]
    ELSE IF mainOk
    THEN [branch |-> "origin/main",
          cmds |-> <<Cmd("rev-parse", "@{upstream}", FALSE),
                     Cmd("rev-parse", "origin/master", FALSE),
                     Cmd("rev-parse", "origin/main", TRUE)>>]
    ELSE [branch |-> "",
          cmds |-> <<Cmd("rev-parse", "@{upstream}", FALSE),
                     Cmd("rev-parse", "origin/master", FALSE),
                     Cmd("rev-parse", "origin/main", FALSE)>>]

\* the nested try blocks that set remoteBranch; branch "" stands for the
\* throw of the innermost catch
resolveRemoteBranch(upstreamOk, mainOk, masterOk) ==
    IF upstreamOk
    THEN [branch |-> UpstreamBranch,
          cmds |-> <<Cmd("rev-parse", "@{upstream}", TRUE)>>]
    ELSE IF mainOk
    THEN [branch |-> "origin/main",
          cmds |-> <<Cmd("rev-parse", "@{upstream}", FALSE),
                     Cmd("rev-parse", "origin/main", TRUE)>>]
    ELSE IF masterOk
    THEN [branch |-> "origin/master",
          cmds |-> <<Cmd("rev-parse", "@{upstream}", FALSE),
                     Cmd("rev-parse", "origin/main", FALSE),
                     Cmd("rev-parse", "origin/master", TRUE)>>]
    ELSE [branch |-> "",
          cmds |-> <<Cmd("rev-parse", "@{upstream}", FALSE),
                     Cmd("rev-parse", "origin/main", FALSE),
                     Cmd("rev-parse", "origin/master", FALSE)>>]

\* mutant: a failed fetch is ignored and the diff runs against the stale branch
getChangedFilesIgnoringFetch(fetchOk, upstreamOk, mainOk, masterOk, diffOk, diffFiles) ==
    LET fetch == <<Cmd("fetch", "origin", fetchOk)>>
        r == resolveRemoteBranch(upstreamOk, mainOk, masterOk)
        diff == <<Cmd("diff", r.branch, diffOk)>>
    IN IF r.branch = "" THEN After(fetch \o r.cmds, Threw)
       ELSE IF ~diffOk THEN After(fetch \o r.cmds \o diff, Threw)
       ELSE After(fetch \o r.cmds \o diff, Returned(diffFiles))

\* Condition A: fetch, resolve the comparison branch, diff.  The arguments
\* say which git commands succeed and what the diff lists.
getChangedFilesAgainstRemote(fetchOk, upstreamOk, mainOk, masterOk, diffOk, diffFiles) ==
    LET fetch == <<Cmd("fetch", "origin", fetchOk)>>
        r == resolveRemoteBranch(upstreamOk, mainOk, masterOk)
        diff == <<Cmd("diff", r.branch, diffOk)>>
    IN IF ~fetchOk THEN After(fetch, Threw)
       ELSE IF r.branch = "" THEN After(fetch \o r.cmds, Threw)
       ELSE IF ~diffOk THEN After(fetch \o r.cmds \o diff, Threw)
       ELSE After(fetch \o r.cmds \o diff, Returned(diffFiles))

\* mutant: every document counts as new
IsLocalNewAlways(frontMatter) == TRUE

\* Condition B, per file: !frontMatter.dev_to_article_id
IsLocalNew(frontMatter) == ~Truthy(Get(frontMatter, "dev_to_article_id"))

\* Condition B: readdir, then every readable .md file without an identifier.
\* dirOutcome is "ok", "ENOENT" (no such directory) or another error;
\* unreadable are the files whose read or parse throws.
getLocalNewMarkdownFiles(dirOutcome, unreadable, files) ==
    IF dirOutcome = "ENOENT" THEN Returned(<<>>)
    ELSE IF dirOutcome # "ok" THEN Threw
    ELSE Returned(SelectSeq(DocOrder,
            LAMBDA d : d \notin unreadable /\ IsLocalNew(matter(files[d]).data)))

\* Condition C: git status --porcelain restricted to the content directory.
getLocalStatusChangedMarkdownFiles(statusOk, changed) ==
    IF ~statusOk THEN Threw ELSE Returned(SeqOf(changed))

(***************************************************************************)
(* The lines of git status --porcelain and how signal C reads them.  A     *)
(* line is a sequence of characters; the directory name "articles" is one  *)
(* element.                                                                *)
(***************************************************************************)
MaxStatusLines == 2     \* lines of one git status output

\* ARTICLES_DIR_NAME; path.resolve puts the same working directory in front of
\* the directory and of every path, which is left out on both sides
ArticlesDir == "articles"
Quote == "\""
Arrow == <<" ", "-", ">", " ">>
DotMd == <<".", "m", "d">>

StartsWith(s, p) == Len(s) >= Len(p) /\ SubSeq(s, 1, Len(p)) = p
EndsWith(s, p) == Len(s) >= Len(p) /\ SubSeq(s, Len(s) - Len(p) + 1, Len(s)) = p
Includes(s, c) == \E i \in 1..Len(s) : s[i] = c

RECURSIVE trim(_)
\* String.prototype.trim
trim(s) ==
    IF s # <<>> /\ s[1] = " " THEN trim(Tail(s))
    ELSE IF s # <<>> /\ s[Len(s)] = " " THEN trim(SubSeq(s, 1, Len(s) - 1))
    ELSE s

\* where ' -> ' occurs in s
ArrowAt(s) == {i \in 1..(Len(s) - 3) : SubSeq(s, i, i + 3) = Arrow}

RECURSIVE splitArrow(_)
\* filePathRaw.split(' -> ')
splitArrow(s) ==
    IF ArrowAt(s) = {} THEN <<s>>
    ELSE LET i == CHOOSE j \in ArrowAt(s) : \A k \in ArrowAt(s) : j <= k
         IN <<SubSeq(s, 1, i - 1)>> \o splitArrow(SubSeq(s, i + 4, Len(s)))

\* mutant: a rename line is not taken apart
renamedPathWhole(status, filePathRaw) == [skip |-> FALSE, raw |-> filePathRaw]

\* if (status.startsWith('R')): the new path, or continue when the text does
\* not split in two
renamedPath(status, filePathRaw) ==
    IF StartsWith(status, <<"R">>)
    THEN LET paths == splitArrow(filePathRaw)
         IN IF Len(paths) = 2 THEN [skip |-> FALSE, raw |-> paths[2]]
            ELSE [skip |-> TRUE, raw |-> filePathRaw]
    ELSE [skip |-> FALSE, raw |-> filePathRaw]

\* mutant: the quotes stay
unquoteNever(filePathRaw) == filePathRaw

\* filePathRaw.startsWith('"') && filePathRaw.endsWith('"')
\*     ? filePathRaw.substring(1, filePathRaw.length - 1) : filePathRaw
\* (substring(1, 0) of a lone quote is substring(0, 1), the quote itself)
unquote(filePathRaw) ==
    IF StartsWith(filePathRaw, <<Quote>>) /\ EndsWith(filePathRaw, <<Quote>>)
    THEN IF Len(filePathRaw) = 1 THEN filePathRaw
         ELSE SubSeq(filePathRaw, 2, Len(filePathRaw) - 1)
    ELSE filePathRaw

\* status.startsWith('??') || status.includes('M') || status.startsWith('A')
\*     || status.startsWith('R')
statusWanted(status) ==
    \/ StartsWith(status, <<"?", "?">>)
    \/ Includes(status, "M")
    \/ StartsWith(status, <<"A">>)
    \/ StartsWith(status, <<"R">>)

\* the body of the loop over the lines: the paths this line adds to statusFiles
statusLine(line) ==
    LET status == SubSeq(line, 1, IF Len(line) < 2 THEN Len(line) ELSE 2)
        r == renamedPath(status, trim(SubSeq(line, 4, Len(line))))
        filePath == unquote(r.raw)
    IN IF r.skip THEN <<>>
       ELSE IF /\ EndsWith(filePath, DotMd)
               /\ StartsWith(filePath, <<ArticlesDir>>)
               /\ statusWanted(status)
            THEN <<filePath>>
            ELSE <<>>

RECURSIVE statusFiles(_)
\* stdout.split('\n').filter(line => line.trim() !== '') and the loop
statusFiles(lines) ==
    IF lines = <<>> THEN <<>>
    ELSE IF trim(Head(lines)) = <<>> THEN statusFiles(Tail(lines))
    ELSE statusLine(Head(lines)) \o statusFiles(Tail(lines))

\* git quotes a path that holds a space
quotePath(path) == IF Includes(path, " ") THEN <<Quote>> \o path \o <<Quote>> ELSE path

\* the line git status --porcelain prints for an entry: XY PATH, or
\* XY ORIG_PATH -> PATH for a rename
porcelainLine(e) ==
    e.code \o <<" ">>
        \o (IF e.from # <<>> THEN quotePath(e.from) \o Arrow ELSE <<>>)
        \o quotePath(e.path)

\* entries git status can report
MdA == <<ArticlesDir, "/", "a", ".", "m", "d">>
MdB == <<ArticlesDir, "/", "b", ".", "m", "d">>
MdSpaced == <<ArticlesDir, "/", "m", "y", " ", "a", ".", "m", "d">>
Txt == <<ArticlesDir, "/", "a", ".", "t", "x", "t">>
MdNested == <<ArticlesDir, "/", "sub", "/", "n", ".", "m", "d">>
StatusCodes == {<<"?", "?">>, <<" ", "M">>, <<"M", " ">>, <<"A", " ">>, <<"A", "M">>,
                <<"D", " ">>, <<" ", "D">>, <<"M", "D">>, <<"A", "D">>}
RenameCodes == {<<"R", " ">>, <<"R", "M">>}
StatusEntries ==
    [code : StatusCodes, from : {<<>>}, path : {MdA, MdSpaced, Txt, MdNested}]
        \cup {e \in [code : RenameCodes, from : {MdA, MdSpaced, Txt},
                                          path : {MdB, MdSpaced, Txt}] : e.from # e.path}

\* mutant: the list is not deduplicated
DedupNone(s) == s

RECURSIVE Dedup(_)
\* Array.from(new Set(s)): the first occurrence of every element, in order
Dedup(s) ==
    IF s = <<>> THEN <<>>
    ELSE LET init == Dedup(SubSeq(s, 1, Len(s) - 1))
             last == s[Len(s)]
         IN IF last \in Range(init) THEN init ELSE Append(init, last)

\* mutant: Promise.all without the per-signal catch
JoinNoCatch(a, b, c) ==
    IF a.threw \/ b.threw \/ c.threw THEN Threw
    ELSE Returned(Dedup(a.files \o b.files \o c.files))

\* x.catch(e => []) of one signal
Caught(x) == IF x.threw THEN <<>> ELSE x.files

\* getPublishableMarkdownFiles, from the three signals' outcomes
getPublishableMarkdownFiles(a, b, c) ==
    Returned(Dedup(Caught(a) \o Caught(b) \o Caught(c)))

(***************************************************************************)
(* publishArticle: routing and per-document results.                       *)
(***************************************************************************)
Null == [null |-> TRUE, val |-> 0]
Number(n) == [null |-> FALSE, val |-> n]

\* frontMatter.dev_to_article_id ? parseInt(String(...), 10) : null, and NaN
\* replaced by null
ParseArticleId(frontMatter) ==
    LET raw == Get(frontMatter, "dev_to_article_id")
        parsed == parseInt(String(raw))
    IN IF ~Truthy(raw) THEN Null
       ELSE IF parsed.nan THEN Null
       ELSE Number(parsed.val)

\* mutant: the identifier in the front matter is not looked at
RouteAlwaysCreate(articleId) == "create"

\* if (articleId) ... else ...
Route(articleId) ==
    IF ~articleId.null /\ articleId.val # 0 THEN "update" ELSE "create"

\* mutant: the update branch rewrites the local file as well
WritesLocalFileAlways(route) == TRUE

\* only the create branch writes the local file
WritesLocalFile(route) == route = "create"

\* mutant: the local file gets the body that was sent to the API
NewLocalFileContentForDevto(frontMatter, body_markdown, markdownForDevto) ==
    stringify(markdownForDevto, frontMatter)

\* matter.stringify(body_markdown, frontMatter)
NewLocalFileContent(frontMatter, body_markdown, markdownForDevto) ==
    stringify(body_markdown, frontMatter)

SkippedResult(file) ==
    [file |-> file, success |-> FALSE, action |-> "skipped", id |-> 0,
     error |-> "Missing title", skipped |-> TRUE]

SuccessResult(file, id, action) ==
    [file |-> file, success |-> TRUE, action |-> action, id |-> id,
     error |-> "", skipped |-> FALSE]

\* mutant: the catch block records the document as skipped, without the message
FailedResultAsSkipped(file, error) ==
    [file |-> file, success |-> FALSE, action |-> "skipped", id |-> 0,
     error |-> "", skipped |-> TRUE]

\* the catch block of the loop body
FailedResult(file, error) ==
    [file |-> file, success |-> FALSE, action |-> "failed", id |-> 0,
     error |-> error, skipped |-> FALSE]

\* mutant: a failed document is tried again
AdvanceRetryingFailed(i, action) == IF action = "failed" THEN i ELSE i + 1

\* mutant: the candidate after a failed one is passed over
AdvanceSkippingAfterFailed(i, action) == IF action = "failed" THEN i + 2 ELSE i + 1

\* for (const relativeFilePath of publishableFiles): the next candidate
Advance(i, action) == i + 1

\* mutant: any recorded result starts the git operations
AllResults(rs) == rs

\* results.filter(r => r.success && (r.action === 'created' || r.action === 'updated'))
SuccessfulApiOperations(rs) ==
    SelectSeq(rs, LAMBDA r : r.success /\ r.action \in {"created", "updated"})

(***************************************************************************)
(* State.                                                                  *)
(***************************************************************************)
VARIABLES
    disk,               \* the content directory: path -> file
    dirty,              \* paths with unstaged or untracked changes
    staged,             \* paths staged in the index
    unpushed,           \* paths that differ between the remote branch and HEAD
    nextId,             \* the next identifier the remote service assigns
    pc,                 \* where publishArticle is
    run,                \* number of invocations started
    faults,             \* number of failures injected so far
    repoInfo,           \* the result of getRepoInfo
    sig,                \* the outcome of each signal, once it has settled
    publishableFiles,   \* the candidate list
    idx,                \* index of the candidate being processed
    cur,                \* the locals of the candidate being processed
    results,            \* PublishResult[]
    apiLog,             \* createArticle/updateArticle calls of this invocation
    writes,             \* fs.writeFile calls of this invocation, per path
    diskAtStart,        \* the content directory when this invocation started
    gitLog,             \* git add/commit/push commands of this invocation
    stagedByRun,        \* paths the finalizer staged in this invocation
    stampedBefore       \* paths created and stamped by an earlier invocation

vars == <<disk, dirty, staged, unpushed, nextId, pc, run, faults, repoInfo, sig,
          publishableFiles, idx, cur, results, apiLog, writes, diskAtStart,
          gitLog, stagedByRun, stampedBefore>>

gitVars == <<dirty, staged, unpushed>>
histVars == <<apiLog, writes, diskAtStart, gitLog, stagedByRun, stampedBefore>>

Signals == {"A", "B", "C"}
Pending == [done |-> FALSE, threw |-> FALSE, files |-> <<>>]
Settled(x) == [done |-> TRUE, threw |-> x.threw, files |-> x.files]
\* a settled signal A together with the git commands it issued
Traced(x) == [done |-> TRUE, threw |-> x.threw, files |-> x.files, git |-> x.git]

NoCur == [file |-> "", frontMatter |-> <<>>, body_markdown |-> <<>>,
          markdownForDevto |-> <<>>, articleId |-> Null, route |-> ""]

Init ==
    /\ \E start \in [Docs -> InitialDocs] :
        /\ disk = [d \in Docs |-> start[d].file]
        /\ dirty = {d \in Docs : start[d].dirty}
        /\ unpushed = {d \in Docs : start[d].unpushed}
    /\ staged = {}
    /\ nextId = FirstNewId
    /\ pc = "idle"
    /\ run = 0
    /\ faults = 0
    /\ repoInfo = RepoInfoNull
    /\ sig = [s \in Signals |-> Pending]
    /\ publishableFiles = <<>>
    /\ idx = 0
    /\ cur = NoCur
    /\ results = <<>>
    /\ apiLog = <<>>
    /\ writes = [d \in Docs |-> 0]
    /\ diskAtStart = disk
    /\ gitLog = <<>>
    /\ stagedByRun = {}
    /\ stampedBefore = {}

\* the paths this invocation created and stamped
StampedNow == {results[i].file : i \in {j \in 1..Len(results) : results[j].action = "created"}}

(***************************************************************************)
(* publishArticle, step 1: getRepoInfo and the check of its fields.        *)
(***************************************************************************)
Start ==
    /\ pc \in {"idle", "done"}
    /\ run < MaxRuns
    /\ run' = run + 1
    /\ \E info \in {RepoInfoOk, RepoInfoNull} :
        /\ repoInfo' = info
        /\ pc' = IF RepoInfoMissing(info) THEN "done" ELSE "signals"
    /\ sig' = [s \in Signals |-> Pending]
    /\ publishableFiles' = <<>>
    /\ idx' = 0
    /\ cur' = NoCur
    /\ results' = <<>>
    /\ apiLog' = <<>>
    /\ writes' = [d \in Docs |-> 0]
    /\ diskAtStart' = disk
    /\ gitLog' = <<>>
    /\ stagedByRun' = {}
    /\ stampedBefore' = stampedBefore \cup StampedNow
    /\ UNCHANGED <<disk, gitVars, nextId, faults>>

(***************************************************************************)
(* Step 2: the three signals run concurrently and are joined.              *)
(***************************************************************************)
SignalA ==
    /\ pc = "signals" /\ ~sig["A"].done
    /\ \E fetchOk, upstreamOk, mainOk, masterOk, diffOk \in BOOLEAN :
        sig' = [sig EXCEPT !["A"] = Settled(getChangedFilesAgainstRemote(
                    fetchOk, upstreamOk, mainOk, masterOk, diffOk, SeqOf(unpushed)))]
    /\ UNCHANGED <<disk, gitVars, nextId, pc, run, faults, repoInfo, publishableFiles,
                   idx, cur, results, histVars>>

\* signal A with the effect of git fetch: the remote-tracking branch moves to
\* where the remote is, and the diff against HEAD lists what differs from there
SignalAFetching ==
    /\ pc = "signals" /\ ~sig["A"].done
    /\ \E fetchOk, upstreamOk, mainOk, masterOk, diffOk \in BOOLEAN, differing \in SUBSET Docs :
        /\ unpushed' = IF fetchOk THEN differing ELSE unpushed
        /\ sig' = [sig EXCEPT !["A"] = Settled(getChangedFilesAgainstRemote(
                     fetchOk, upstreamOk, mainOk, masterOk, diffOk, SeqOf(unpushed')))]
    /\ UNCHANGED <<disk, dirty, staged, nextId, pc, run, faults, repoInfo,
                   publishableFiles, idx, cur, results, histVars>>

\* mutant: signal B saves every file it finds without identifier, which git
\* status then lists as modified
SignalBTouching ==
    /\ pc = "signals" /\ ~sig["B"].done
    /\ \E dirOutcome \in {"ok", "EIO"}, unreadable \in SUBSET Docs :
        /\ Cardinality(unreadable) <= 1
        /\ unreadable # {} => dirOutcome = "ok" /\ faults < MaxFaults
        /\ faults' = faults + Cardinality(unreadable)
        /\ sig' = [sig EXCEPT !["B"] =
                     Settled(getLocalNewMarkdownFiles(dirOutcome, unreadable, disk))]
        /\ dirty' = dirty \cup Range(getLocalNewMarkdownFiles(dirOutcome, unreadable, disk).files)
    /\ UNCHANGED <<disk, staged, unpushed, nextId, pc, run, repoInfo, publishableFiles,
                   idx, cur, results, histVars>>

SignalB ==
    /\ pc = "signals" /\ ~sig["B"].done
    /\ \E dirOutcome \in {"ok", "EIO"}, unreadable \in SUBSET Docs :
        /\ Cardinality(unreadable) <= 1
        /\ unreadable # {} => dirOutcome = "ok" /\ faults < MaxFaults
        /\ faults' = faults + Cardinality(unreadable)
        /\ sig' = [sig EXCEPT !["B"] =
                     Settled(getLocalNewMarkdownFiles(dirOutcome, unreadable, disk))]
    /\ UNCHANGED <<disk, gitVars, nextId, pc, run, repoInfo, publishableFiles,
                   idx, cur, results, histVars>>

SignalC ==
    /\ pc = "signals" /\ ~sig["C"].done
    /\ \E statusOk \in BOOLEAN :
        sig' = [sig EXCEPT !["C"] =
                  Settled(getLocalStatusChangedMarkdownFiles(statusOk, dirty \cup staged))]
    /\ UNCHANGED <<disk, gitVars, nextId, pc, run, faults, repoInfo, publishableFiles,
                   idx, cur, results, histVars>>

(***************************************************************************)
(* The remote URL and the two patterns of getRepoInfo.  A URL is a         *)
(* sequence of pieces: the text up to the owner is one piece, "/" and "."  *)
(* are pieces, and the other pieces are texts without "/" and ".".         *)
(***************************************************************************)
SshStart == "git@github.com:"
HttpsStart == "https://github.com/"
DotGit == <<".", "git">>

\* the first place where a piece occurs in s, 0 when it does not
FirstOf(s, piece) ==
    IF \E i \in 1..Len(s) : s[i] = piece
    THEN CHOOSE i \in 1..Len(s) : s[i] = piece /\ \A j \in 1..(i - 1) : s[j] # piece
    ELSE 0

NoMatch == [ok |-> FALSE, user |-> <<>>, repo |-> <<>>]

\* what follows the first occurrence of a piece
AfterFirst(s, piece) == SubSeq(s, FirstOf(s, piece) + 1, Len(s))

\* url.match(/git@github\.com:([^\/]+)\/([^\.]+)(\.git)?/): the owner runs
\* to the first "/", the repository from there to the first "." or the end
matchSsh(url) ==
    IF FirstOf(url, SshStart) = 0 THEN NoMatch
    ELSE LET after == AfterFirst(url, SshStart)
             slash == FirstOf(after, "/")
             rest == SubSeq(after, slash + 1, Len(after))
             dot == FirstOf(rest, ".")
             repo == IF dot = 0 THEN rest ELSE SubSeq(rest, 1, dot - 1)
         IN IF slash < 2 \/ repo = <<>> THEN NoMatch
            ELSE [ok |-> TRUE, user |-> SubSeq(after, 1, slash - 1), repo |-> repo]

\* url.match(/https:\/\/github\.com\/([^\/]+)\/([^\.]+?)(\.git)?$/): the
\* owner runs to the first "/"; what follows must be free of "." up to an
\* optional .git at the end of the URL
matchHttps(url) ==
    IF FirstOf(url, HttpsStart) = 0 THEN NoMatch
    ELSE LET after == AfterFirst(url, HttpsStart)
             slash == FirstOf(after, "/")
             rest == SubSeq(after, slash + 1, Len(after))
             repo == IF EndsWith(rest, DotGit) /\ FirstOf(rest, ".") = Len(rest) - 1
                     THEN SubSeq(rest, 1, Len(rest) - 2)
                     ELSE rest
         IN IF slash < 2 \/ repo = <<>> \/ FirstOf(repo, ".") # 0 THEN NoMatch
            ELSE [ok |-> TRUE, user |-> SubSeq(after, 1, slash - 1), repo |-> repo]

\* the SSH pattern first, the HTTPS pattern if it does not match
parseRemoteUrl(url) ==
    IF matchSsh(url).ok THEN matchSsh(url) ELSE matchHttps(url)

\* owners and repository names, and the three forms of a remote URL for them
Owners == {<<"o">>, <<"o", "-", "x">>}
RepoNames == {<<"r">>, <<"r", "-", "cli">>, <<"my", ".", "repo">>}
UrlForms == {"ssh", "https", "https.git"}
RemoteUrl(form, owner, name) ==
    CASE form = "ssh" -> <<SshStart>> \o owner \o <<"/">> \o name \o DotGit
      [] form = "https" -> <<HttpsStart>> \o owner \o <<"/">> \o name
      [] form = "https.git" -> <<HttpsStart>> \o owner \o <<"/">> \o name \o DotGit

\* Step 1 with the remote URL parsed, keeping the URL and what was read from it
StartParsing ==
    /\ pc \in {"idle", "done"}
    /\ run < MaxRuns
    /\ run' = run + 1
    /\ \E form \in UrlForms, owner \in Owners, name \in RepoNames,
          env \in {"unset", "owner/repo", "malformed"}, branchOk, upstreamOk \in BOOLEAN :
        LET m == parseRemoteUrl(RemoteUrl(form, owner, name))
            info == getRepoInfo([urlOk |-> TRUE,
                                 url |-> IF matchSsh(RemoteUrl(form, owner, name)).ok
                                         THEN "ssh"
                                         ELSE IF m.ok THEN "https" ELSE "other",
                                 env |-> env, branchOk |-> branchOk,
                                 upstreamOk |-> upstreamOk])
        IN /\ repoInfo' = [user |-> info.user, repo |-> info.repo, branch |-> info.branch,
                           remoteBranch |-> info.remoteBranch, threw |-> info.threw,
                           met |-> [form |-> form, owner |-> owner, name |-> name],
                           matched |-> m]
           /\ pc' = IF info.threw \/ RepoInfoMissing(info) THEN "done" ELSE "signals"
    /\ sig' = [s \in Signals |-> Pending]
    /\ publishableFiles' = <<>>
    /\ idx' = 0
    /\ cur' = NoCur
    /\ results' = <<>>
    /\ apiLog' = <<>>
    /\ writes' = [d \in Docs |-> 0]
    /\ diskAtStart' = disk
    /\ gitLog' = <<>>
    /\ stagedByRun' = {}
    /\ stampedBefore' = stampedBefore \cup StampedNow
    /\ UNCHANGED <<disk, gitVars, nextId, faults>>

\* Step 1 with getRepoInfo spelled out, keeping what it met
StartTraced ==
    /\ pc \in {"idle", "done"}
    /\ run < MaxRuns
    /\ run' = run + 1
    /\ \E e \in RepoEnvs :
        LET info == getRepoInfo(e)
        IN /\ repoInfo' = [user |-> info.user, repo |-> info.repo, branch |-> info.branch,
                           remoteBranch |-> info.remoteBranch, threw |-> info.threw,
                           met |-> e]
           /\ pc' = IF info.threw \/ RepoInfoMissing(info) THEN "done" ELSE "signals"
    /\ sig' = [s \in Signals |-> Pending]
    /\ publishableFiles' = <<>>
    /\ idx' = 0
    /\ cur' = NoCur
    /\ results' = <<>>
    /\ apiLog' = <<>>
    /\ writes' = [d \in Docs |-> 0]
    /\ diskAtStart' = disk
    /\ gitLog' = <<>>
    /\ stagedByRun' = {}
    /\ stampedBefore' = stampedBefore \cup StampedNow
    /\ UNCHANGED <<disk, gitVars, nextId, faults>>

\* Signal C, keeping what git status reported and printed
SignalCParsed ==
    /\ pc = "signals" /\ ~sig["C"].done
    /\ \E entries \in UNION {[1..n -> StatusEntries] : n \in 0..MaxStatusLines} :
        LET stdout == [i \in 1..Len(entries) |-> porcelainLine(entries[i])]
        IN sig' = [sig EXCEPT !["C"] =
                     [done |-> TRUE, threw |-> FALSE, files |-> statusFiles(stdout),
                      entries |-> entries, stdout |-> stdout]]
    /\ UNCHANGED <<disk, gitVars, nextId, pc, run, faults, repoInfo, publishableFiles,
                   idx, cur, results, histVars>>

\* Signal A, keeping the commands it issued
SignalATraced ==
    /\ pc = "signals" /\ ~sig["A"].done
    /\ \E fetchOk, upstreamOk, mainOk, masterOk, diffOk \in BOOLEAN :
        sig' = [sig EXCEPT !["A"] = Traced(getChangedFilesAgainstRemote(
                    fetchOk, upstreamOk, mainOk, masterOk, diffOk, SeqOf(unpushed)))]
    /\ UNCHANGED <<disk, gitVars, nextId, pc, run, faults, repoInfo, publishableFiles,
                   idx, cur, results, histVars>>

\* Signal A in a repository without upstream, origin/main and origin/master
SignalANoRemoteBranch ==
    /\ pc = "signals" /\ ~sig["A"].done
    /\ sig' = [sig EXCEPT !["A"] = Traced(getChangedFilesAgainstRemote(
                    TRUE, FALSE, FALSE, FALSE, TRUE, SeqOf(unpushed)))]
    /\ UNCHANGED <<disk, gitVars, nextId, pc, run, faults, repoInfo, publishableFiles,
                   idx, cur, results, histVars>>

\* await Promise.all([...]) and the union; publishArticle returns when the
\* resolver throws
Join ==
    /\ pc = "signals"
    /\ \A s \in Signals : sig[s].done
    /\ LET r == getPublishableMarkdownFiles(sig["A"], sig["B"], sig["C"])
       IN /\ publishableFiles' = r.files
          /\ pc' = IF r.threw THEN "threw" ELSE "joined"
    /\ UNCHANGED <<disk, gitVars, nextId, run, faults, repoInfo, sig, idx, cur,
                   results, histVars>>

\* the catch around the resolver, and the return on an empty list
AfterJoin ==
    /\ pc \in {"joined", "threw"}
    /\ pc' = IF pc = "threw" \/ publishableFiles = <<>> THEN "done" ELSE "load"
    /\ idx' = 1
    /\ sig' = [s \in Signals |-> Pending]
    /\ UNCHANGED <<disk, gitVars, nextId, run, faults, repoInfo, publishableFiles,
                   cur, results, histVars>>

(***************************************************************************)
(* Step 3: the loop over the candidates.                                   *)
(***************************************************************************)
\* mutant: the title is checked after the call to the remote service
LoadUnguarded ==
    /\ pc = "load" /\ idx <= Len(publishableFiles)
    /\ LET file == publishableFiles[idx]
           m == matter(disk[file])
       IN /\ cur' = [file |-> file,
                     frontMatter |-> m.data,
                     body_markdown |-> m.content,
                     markdownForDevto |-> convertLocalPathsToGitHubUrls(m.content, repoInfo),
                     articleId |-> ParseArticleId(m.data),
                     route |-> Route(ParseArticleId(m.data))]
          /\ pc' = "api"
          /\ UNCHANGED <<idx, results, faults>>
    /\ UNCHANGED <<disk, gitVars, nextId, run, repoInfo, sig, publishableFiles, histVars>>

\* readFile, matter, the title guard, the image rewrite and the routing
Load ==
    /\ pc = "load" /\ idx <= Len(publishableFiles)
    /\ LET file == publishableFiles[idx]
           m == matter(disk[file])
       IN \/ \* fs.readFile or matter throws
             /\ faults < MaxFaults
             /\ faults' = faults + 1
             /\ results' = Append(results, FailedResult(file, "read"))
             /\ idx' = Advance(idx, FailedResult(file, "read").action)
             /\ UNCHANGED <<pc, cur>>
          \/ \* if (!frontMatter.title) ... continue
             /\ ~Truthy(Get(m.data, "title"))
             /\ results' = Append(results, SkippedResult(file))
             /\ idx' = Advance(idx, "skipped")
             /\ UNCHANGED <<pc, cur, faults>>
          \/ /\ Truthy(Get(m.data, "title"))
             /\ cur' = [file |-> file,
                        frontMatter |-> m.data,
                        body_markdown |-> m.content,
                        markdownForDevto |-> convertLocalPathsToGitHubUrls(m.content, repoInfo),
                        articleId |-> ParseArticleId(m.data),
                        route |-> Route(ParseArticleId(m.data))]
             /\ pc' = "api"
             /\ UNCHANGED <<idx, results, faults>>
    /\ UNCHANGED <<disk, gitVars, nextId, run, repoInfo, sig, publishableFiles, histVars>>

ApiCall(op, id, ok) ==
    [op |-> op, file |-> cur.file, id |-> id, body |-> cur.markdownForDevto, ok |-> ok]

\* mutant: after createArticle the loop goes on to the next candidate while
\* the write of this one is still to come
ApiNotAwaited ==
    /\ pc = "api"
    /\ cur.route = "create"
    /\ apiLog' = Append(apiLog, ApiCall("create", nextId, TRUE))
    /\ nextId' = nextId + 1
    /\ cur' = [cur EXCEPT !.articleId = Number(nextId)]
    /\ idx' = idx + 1
    /\ pc' = "load"
    /\ UNCHANGED <<disk, gitVars, run, faults, repoInfo, sig, publishableFiles, results,
                   writes, diskAtStart, gitLog, stagedByRun, stampedBefore>>

\* await updateArticle(articleId, payloadForApi) or await createArticle(payloadForApi)
Api ==
    /\ pc = "api"
    /\ \/ \* the call succeeds
          /\ cur.route = "update"
          /\ apiLog' = Append(apiLog, ApiCall("update", cur.articleId.val, TRUE))
          /\ IF WritesLocalFile(cur.route)
             THEN /\ pc' = "write"
                  /\ UNCHANGED <<results, idx, cur>>
             ELSE /\ results' = Append(results,
                                       SuccessResult(cur.file, cur.articleId.val, "updated"))
                  /\ idx' = Advance(idx, "updated")
                  /\ cur' = NoCur
                  /\ pc' = "load"
          /\ UNCHANGED <<nextId, faults>>
       \/ /\ cur.route = "create"
          /\ apiLog' = Append(apiLog, ApiCall("create", nextId, TRUE))
          /\ nextId' = nextId + 1
          /\ cur' = [cur EXCEPT !.articleId = Number(nextId)]
          /\ pc' = "write"
          /\ UNCHANGED <<results, idx, faults>>
       \/ \* the call throws
          /\ faults < MaxFaults
          /\ faults' = faults + 1
          /\ apiLog' = Append(apiLog, ApiCall(cur.route, cur.articleId.val, FALSE))
          /\ results' = Append(results, FailedResult(cur.file, "api"))
          /\ idx' = Advance(idx, FailedResult(cur.file, "api").action)
          /\ cur' = NoCur
          /\ pc' = "load"
          /\ UNCHANGED nextId
    /\ UNCHANGED <<disk, gitVars, run, repoInfo, sig, publishableFiles, writes,
                   diskAtStart, gitLog, stagedByRun, stampedBefore>>

\* frontMatter.dev_to_article_id = articleId; fs.writeFile(...); results.push
Write ==
    /\ pc = "write"
    /\ LET fm == SetKey(cur.frontMatter, "dev_to_article_id", Num(cur.articleId.val))
           action == IF cur.route = "create" THEN "created" ELSE "updated"
       IN \/ /\ disk' = [disk EXCEPT ![cur.file] =
                           NewLocalFileContent(fm, cur.body_markdown, cur.markdownForDevto)]
             /\ dirty' = IF disk'[cur.file] = disk[cur.file] THEN dirty
                         ELSE dirty \cup {cur.file}
             /\ writes' = [writes EXCEPT ![cur.file] = @ + 1]
             /\ results' = Append(results, SuccessResult(cur.file, cur.articleId.val, action))
             /\ idx' = Advance(idx, action)
             /\ UNCHANGED faults
          \/ \* fs.writeFile throws
             /\ faults < MaxFaults
             /\ faults' = faults + 1
             /\ writes' = [writes EXCEPT ![cur.file] = @ + 1]
             /\ results' = Append(results, FailedResult(cur.file, "write"))
             /\ idx' = Advance(idx, FailedResult(cur.file, "write").action)
             /\ UNCHANGED <<disk, dirty>>
    /\ cur' = NoCur
    /\ pc' = "load"
    /\ UNCHANGED <<staged, unpushed, nextId, run, repoInfo, sig, publishableFiles,
                   apiLog, diskAtStart, gitLog, stagedByRun, stampedBefore>>

\* mutant: the process ends after fs.writeFile has completed
InterruptAfterWrite ==
    /\ pc = "write" /\ cur.route = "create"
    /\ disk' = [disk EXCEPT ![cur.file] =
                  NewLocalFileContent(
                      SetKey(cur.frontMatter, "dev_to_article_id", Num(cur.articleId.val)),
                      cur.body_markdown, cur.markdownForDevto)]
    /\ dirty' = dirty \cup {cur.file}
    /\ pc' = "killed"
    /\ UNCHANGED <<staged, unpushed, nextId, run, faults, repoInfo, sig,
                   publishableFiles, idx, cur, results, histVars>>

\* the process is interrupted after createArticle has returned and before
\* fs.writeFile has run: nothing is written, recorded or committed
Interrupt ==
    /\ pc = "write" /\ cur.route = "create"
    /\ pc' = "killed"
    /\ UNCHANGED <<disk, gitVars, nextId, run, faults, repoInfo, sig,
                   publishableFiles, idx, cur, results, histVars>>

\* the command line is free again after the interruption
Restart ==
    /\ pc = "killed"
    /\ pc' = "done"
    /\ UNCHANGED <<disk, gitVars, nextId, run, faults, repoInfo, sig,
                   publishableFiles, idx, cur, results, histVars>>

\* the end of the loop: git operations only after a successful API operation
EndLoop ==
    /\ pc = "load" /\ idx > Len(publishableFiles)
    /\ pc' = IF SuccessfulApiOperations(results) # <<>> THEN "add" ELSE "done"
    /\ UNCHANGED <<disk, gitVars, nextId, run, faults, repoInfo, sig, publishableFiles,
                   idx, cur, results, histVars>>

(***************************************************************************)
(* Step 4: gitAddAll, gitCommit, gitPush inside one try block.             *)
(***************************************************************************)
\* mutant: a failure of git add is swallowed and the commit goes ahead
GitAddAllSwallowing ==
    /\ pc = "add"
    /\ gitLog' = Append(gitLog, "add")
    /\ \/ /\ staged' = staged \cup dirty
          /\ dirty' = {}
          /\ stagedByRun' = staged \cup dirty
          /\ pc' = "commit"
          /\ UNCHANGED faults
       \/ /\ faults < MaxFaults
          /\ faults' = faults + 1
          /\ pc' = "commit"
          /\ UNCHANGED <<dirty, staged, stagedByRun>>
    /\ UNCHANGED <<disk, unpushed, nextId, run, repoInfo, sig, publishableFiles, idx,
                   cur, results, apiLog, writes, diskAtStart, stampedBefore>>

\* gitAddAll: git add -A -v
GitAddAll ==
    /\ pc = "add"
    /\ gitLog' = Append(gitLog, "add")
    /\ \/ /\ staged' = staged \cup dirty
          /\ dirty' = {}
          /\ stagedByRun' = staged \cup dirty
          /\ pc' = "commit"
          /\ UNCHANGED faults
       \/ /\ faults < MaxFaults
          /\ faults' = faults + 1
          /\ pc' = "done"
          /\ UNCHANGED <<dirty, staged, stagedByRun>>
    /\ UNCHANGED <<disk, unpushed, nextId, run, repoInfo, sig, publishableFiles, idx,
                   cur, results, apiLog, writes, diskAtStart, stampedBefore>>

\* gitCommit's handling of the command's result: "returned" or "threw"
gitCommit(exitCode, stderr) ==
    IF exitCode = 0 THEN "returned"
    ELSE IF stderr = "nothing to commit, working tree clean" THEN "returned"
    ELSE "threw"

\* git commit -m message.  With an empty index git exits 1 and prints
\* "nothing to commit, working tree clean" on its standard output.
GitCommit ==
    /\ pc = "commit"
    /\ gitLog' = Append(gitLog, "commit")
    /\ \/ /\ staged # {}
          /\ gitCommit(0, "") = "returned"
          /\ unpushed' = unpushed \cup staged
          /\ staged' = {}
          /\ pc' = "push"
          /\ UNCHANGED faults
       \/ /\ staged = {}
          /\ pc' = IF gitCommit(1, "") = "returned" THEN "push" ELSE "done"
          /\ UNCHANGED <<staged, unpushed, faults>>
       \/ /\ staged # {}
          /\ faults < MaxFaults
          /\ faults' = faults + 1
          /\ pc' = IF gitCommit(1, "error") = "returned" THEN "push" ELSE "done"
          /\ UNCHANGED <<staged, unpushed>>
    /\ UNCHANGED <<disk, dirty, nextId, run, repoInfo, sig, publishableFiles, idx,
                   cur, results, apiLog, writes, diskAtStart, stagedByRun, stampedBefore>>

\* path.basename(r.file)
basename(file) == CHOOSE b \in {"a.md", "b.md"} : ("articles/" \o b) = file

\* the url of the remote service's response for an article
ArticleUrl(id) == <<"https://dev.to/", id>>

\* mutant: the lines of the message are in reverse order
commitMessageReversed(ops) ==
    [subject |-> "Publish/update articles on Dev.to",
     header |-> "Processed files:",
     lines |-> [i \in 1..Len(ops) |->
                  LET r == ops[Len(ops) + 1 - i]
                  IN [basename |-> basename(r.file), id |-> r.id,
                      action |-> r.action, url |-> ArticleUrl(r.id)]]]

\* the commit message: `- ${basename} (ID: ${id}, Action: ${action}) -> ${url}`
\* for each of the successful operations, joined by newlines
commitMessage(ops) ==
    [subject |-> "Publish/update articles on Dev.to",
     header |-> "Processed files:",
     lines |-> [i \in 1..Len(ops) |->
                  [basename |-> basename(ops[i].file), id |-> ops[i].id,
                   action |-> ops[i].action, url |-> ArticleUrl(ops[i].id)]]]

\* git commit with its message kept
GitCommitTraced ==
    /\ pc = "commit"
    /\ gitLog' = Append(gitLog,
                        [cmd |-> "commit",
                         message |-> commitMessage(SuccessfulApiOperations(results))])
    /\ \/ /\ staged # {}
          /\ gitCommit(0, "") = "returned"
          /\ unpushed' = unpushed \cup staged
          /\ staged' = {}
          /\ pc' = "push"
          /\ UNCHANGED faults
       \/ /\ staged = {}
          /\ pc' = IF gitCommit(1, "") = "returned" THEN "push" ELSE "done"
          /\ UNCHANGED <<staged, unpushed, faults>>
       \/ /\ staged # {}
          /\ faults < MaxFaults
          /\ faults' = faults + 1
          /\ pc' = IF gitCommit(1, "error") = "returned" THEN "push" ELSE "done"
          /\ UNCHANGED <<staged, unpushed>>
    /\ UNCHANGED <<disk, dirty, nextId, run, repoInfo, sig, publishableFiles, idx,
                   cur, results, apiLog, writes, diskAtStart, stagedByRun, stampedBefore>>

\* what gitPush meets: whether git rev-parse --abbrev-ref HEAD succeeds and
\* what it prints, the upstream of the branch split at '/' (<<>> when none
\* is configured), and whether the first and the second git push succeed
PushEnvs ==
    [headOk : BOOLEAN, currentBranch : {"main", "topic", "HEAD"},
     remoteParts : {<<>>, <<"origin", "main">>, <<"fork", "topic">>, <<"local">>},
     pushOk : BOOLEAN, secondPushOk : BOOLEAN]

\* mutant: without an upstream the push goes to origin/main, then origin/master
gitPushToDefaultBranches(e) ==
    LET head == <<Cmd("rev-parse", "HEAD", e.headOk)>>
        up == <<Cmd("rev-parse", "@{upstream}", e.remoteParts # <<>>)>>
    IN IF ~e.headOk \/ e.currentBranch = "HEAD"
       THEN [threw |-> ~e.pushOk, cmds |-> head \o <<Cmd("push", <<>>, e.pushOk)>>]
       ELSE IF Len(e.remoteParts) >= 2
       THEN [threw |-> ~e.pushOk,
             cmds |-> head \o up \o
                      <<Cmd("push", <<e.remoteParts[1], e.currentBranch>>, e.pushOk)>>]
       ELSE IF e.pushOk
       THEN [threw |-> FALSE,
             cmds |-> head \o up \o <<Cmd("push", <<"origin", "main">>, TRUE)>>]
       ELSE [threw |-> ~e.secondPushOk,
             cmds |-> head \o up \o <<Cmd("push", <<"origin", "main">>, FALSE),
                                      Cmd("push", <<"origin", "master">>, e.secondPushOk)>>]

\* gitPush: the commands it runs and whether it throws
gitPush(e) ==
    LET head == <<Cmd("rev-parse", "HEAD", e.headOk)>>
        up == <<Cmd("rev-parse", "@{upstream}", e.remoteParts # <<>>)>>
        generic == <<Cmd("push", <<>>, e.pushOk)>>
        toOrigin(ok) == <<Cmd("push", <<"origin", e.currentBranch>>, ok)>>
    IN IF ~e.headOk
       THEN \* catch of the first try: generic push
            [threw |-> ~e.pushOk, cmds |-> head \o generic]
       ELSE IF e.currentBranch = "HEAD"
       THEN \* the else branch: generic push
            [threw |-> ~e.pushOk, cmds |-> head \o generic]
       ELSE IF e.remoteParts = <<>>
       THEN \* rev-parse @{upstream} throws: catch, push origin currentBranch
            [threw |-> ~e.pushOk, cmds |-> head \o up \o toOrigin(e.pushOk)]
       ELSE IF Len(e.remoteParts) >= 2
       THEN IF e.pushOk
            THEN [threw |-> FALSE,
                  cmds |-> head \o up \o
                           <<Cmd("push", <<e.remoteParts[1], e.currentBranch>>, TRUE)>>]
            ELSE \* the push throws inside the try: the same catch pushes to origin
                 [threw |-> ~e.secondPushOk,
                  cmds |-> head \o up \o
                           <<Cmd("push", <<e.remoteParts[1], e.currentBranch>>, FALSE)>>
                           \o toOrigin(e.secondPushOk)]
       ELSE \* no '/' in the upstream: the fallback after the try
            [threw |-> ~e.pushOk, cmds |-> head \o up \o toOrigin(e.pushOk)]

\* gitPush with its commands spelled out, keeping what it met and ran
GitPushTraced ==
    /\ pc = "push"
    /\ \E e \in PushEnvs :
        LET r == gitPush(e)
        IN /\ gitLog' = Append(gitLog, [met |-> e, cmds |-> r.cmds, threw |-> r.threw])
           /\ IF r.threw
              THEN /\ faults < MaxFaults
                   /\ faults' = faults + 1
                   /\ UNCHANGED unpushed
              ELSE /\ unpushed' = {}
                   /\ UNCHANGED faults
    /\ pc' = "done"
    /\ UNCHANGED <<disk, dirty, staged, nextId, run, repoInfo, sig, publishableFiles,
                   idx, cur, results, apiLog, writes, diskAtStart, stagedByRun,
                   stampedBefore>>

\* mutant: gitPush is called outside the try block, its throw leaves publishArticle
GitPushEscaping ==
    /\ pc = "push"
    /\ gitLog' = Append(gitLog, "push")
    /\ \/ /\ unpushed' = {}
          /\ pc' = "done"
          /\ UNCHANGED faults
       \/ /\ faults < MaxFaults
          /\ faults' = faults + 1
          /\ pc' = "escaped"
          /\ UNCHANGED unpushed
    /\ UNCHANGED <<disk, dirty, staged, nextId, run, repoInfo, sig, publishableFiles,
                   idx, cur, results, apiLog, writes, diskAtStart, stagedByRun,
                   stampedBefore>>

\* mutant: a failed push puts the files back as they were
GitPushRollingBack ==
    /\ pc = "push"
    /\ gitLog' = Append(gitLog, "push")
    /\ \/ /\ unpushed' = {}
          /\ UNCHANGED <<faults, disk>>
       \/ /\ faults < MaxFaults
          /\ faults' = faults + 1
          /\ disk' = diskAtStart
          /\ UNCHANGED unpushed
    /\ pc' = "done"
    /\ UNCHANGED <<dirty, staged, nextId, run, repoInfo, sig, publishableFiles,
                   idx, cur, results, apiLog, writes, diskAtStart, stagedByRun,
                   stampedBefore>>

\* gitPush
GitPush ==
    /\ pc = "push"
    /\ gitLog' = Append(gitLog, "push")
    /\ \/ /\ unpushed' = {}
          /\ UNCHANGED faults
       \/ /\ faults < MaxFaults
          /\ faults' = faults + 1
          /\ UNCHANGED unpushed
    /\ pc' = "done"
    /\ UNCHANGED <<disk, dirty, staged, nextId, run, repoInfo, sig, publishableFiles,
                   idx, cur, results, apiLog, writes, diskAtStart, stagedByRun,
                   stampedBefore>>

(***************************************************************************)
(* main.ts: the publish command.                                           *)
(***************************************************************************)
\* try { await publishArticle() } catch (error) { logger.error(...) }: what
\* publishArticle throws is logged; process.exitCode is not set and
\* process.exit is not called, so the process ends with status 0
publishHandler(publishArticleOutcome) ==
    [logged |-> publishArticleOutcome = "threw", exitCode |-> 0]

\* publishArticle leaves by a return statement on every path, the aborts of
\* steps 1 and 2 included
publishArticleOutcome == "returned"

Next ==
    \/ Start
    \/ SignalA
    \/ SignalB
    \/ SignalC
    \/ Join
    \/ AfterJoin
    \/ Load
    \/ Api
    \/ Write
    \/ EndLoop
    \/ GitAddAll
    \/ GitCommit
    \/ GitPush

Spec == Init /\ [][Next]_vars

\* the steps of an invocation that has started: every awaited call settles
\* and the code after it runs
InvocationStep ==
    \/ SignalA
    \/ SignalB
    \/ SignalC
    \/ Join
    \/ AfterJoin
    \/ Load
    \/ Api
    \/ Write
    \/ EndLoop
    \/ GitAddAll
    \/ GitCommit
    \/ GitPush

\* signal A alone, with the commands it issues
NextSignalA ==
    \/ Start
    \/ SignalATraced

SpecSignalA == Init /\ [][NextSignalA]_vars

\* publishArticle in a repository whose comparison branch cannot be determined
NextNoRemoteBranch ==
    \/ Start
    \/ SignalANoRemoteBranch
    \/ SignalB
    \/ SignalC
    \/ Join
    \/ AfterJoin
    \/ Load
    \/ Api
    \/ Write
    \/ EndLoop
    \/ GitAddAll
    \/ GitCommit
    \/ GitPush

SpecNoRemoteBranch == Init /\ [][NextNoRemoteBranch]_vars

\* a clean repository of drafts
InitClean ==
    /\ Init
    /\ \A d \in Docs : disk[d] = Draft
    /\ dirty = {} /\ unpushed = {}

\* signal C alone, on the lines git status can print
NextSignalC ==
    \/ Start
    \/ SignalCParsed

SpecSignalC == InitClean /\ [][NextSignalC]_vars

\* a new draft being edited next to a published article that was committed
InitDraftAndPublished ==
    /\ Init
    /\ disk[DocOrder[1]] = Draft /\ disk[DocOrder[2]] = Published
    /\ dirty = {DocOrder[1]} /\ unpushed = {DocOrder[2]}

\* publishArticle with the commands of gitPush spelled out
NextGitPush ==
    \/ Start
    \/ SignalA
    \/ SignalB
    \/ SignalC
    \/ Join
    \/ AfterJoin
    \/ Load
    \/ Api
    \/ Write
    \/ EndLoop
    \/ GitAddAll
    \/ GitCommit
    \/ GitPushTraced

SpecGitPush == InitDraftAndPublished /\ [][NextGitPush]_vars

\* every document has been edited since the last push
InitAllDirty == Init /\ dirty = Docs /\ unpushed = {}

\* publishArticle with the commit message kept
NextCommitMessage ==
    \/ Start
    \/ SignalA
    \/ SignalB
    \/ SignalC
    \/ Join
    \/ AfterJoin
    \/ Load
    \/ Api
    \/ Write
    \/ EndLoop
    \/ GitAddAll
    \/ GitCommitTraced
    \/ GitPush

SpecCommitMessage == InitAllDirty /\ [][NextCommitMessage]_vars

\* publishArticle on a machine where the process can be interrupted between
\* createArticle and the write of the local file
NextInterrupted ==
    \/ Start
    \/ SignalA
    \/ SignalB
    \/ SignalC
    \/ Join
    \/ AfterJoin
    \/ Load
    \/ Api
    \/ Write
    \/ EndLoop
    \/ GitAddAll
    \/ GitCommit
    \/ GitPush
    \/ Interrupt
    \/ Restart

SpecInterrupted == InitDraftAndPublished /\ [][NextInterrupted]_vars

\* the resolver with the three signals in every order, where git fetch can
\* find the remote branch moved
NextSignals ==
    \/ Start
    \/ SignalAFetching
    \/ SignalB
    \/ SignalC
    \/ Join
    \/ AfterJoin

SpecSignals == Init /\ [][NextSignals]_vars

\* both documents edited, the second one a published article, the first one
\* of any kind
InitEditedNextToPublished == InitAllDirty /\ disk[DocOrder[2]] = Published

\* publishArticle where an invocation that has started keeps taking its steps
SpecTerminating == InitEditedNextToPublished /\ [][Next]_vars /\ WF_vars(InvocationStep)

\* step 1 alone, on the forms of the remote URL
NextRemoteUrl ==
    \/ StartParsing

SpecRemoteUrl == InitClean /\ [][NextRemoteUrl]_vars

\* step 1 alone, on everything getRepoInfo can meet
NextRepoInfo ==
    \/ StartTraced

SpecRepoInfo == InitClean /\ [][NextRepoInfo]_vars

(***************************************************************************)
(* Properties.                                                             *)
(***************************************************************************)
IdKey == "dev_to_article_id"

NoDuplicates(s) == \A i, j \in 1..Len(s) : i # j => s[i] # s[j]

ResultsOf(file) == {i \in 1..Len(results) : results[i].file = file}
CallsOf(file) == {i \in 1..Len(apiLog) : apiLog[i].file = file}

\* the header without the identifier, in order
OtherFields(fm) == SelectSeq(fm, LAMBDA f : f.k # IdKey)

\* C1: the candidate list holds exactly the paths reported by signal A, B or
\* C, and each of them once.
C1_UnionExactlyOnce ==
    pc = "joined" =>
        /\ Range(publishableFiles) =
             Range(sig["A"].files) \cup Range(sig["B"].files) \cup Range(sig["C"].files)
        /\ NoDuplicates(publishableFiles)

\* C1 witness: joined, one document reported by two signals and another one
\* reported by none.
C1_Witness ==
    /\ pc = "joined"
    /\ \E d \in Docs : d \in Range(sig["A"].files) /\ d \in Range(sig["C"].files)
    /\ \E d \in Docs : d \notin Range(publishableFiles)
    /\ Len(publishableFiles) = 1

\* C2: whichever signals fail, the resolver does not throw and returns the
\* union of the lists of the signals that did not fail; every signal has
\* settled when the lists are joined.
C2_SignalIsolation ==
    pc \in {"joined", "threw"} =>
        /\ pc = "joined"
        /\ \A s \in Signals : sig[s].done
        /\ Range(publishableFiles) =
             UNION {Range(sig[s].files) : s \in {t \in Signals : ~sig[t].threw}}
        /\ (sig["A"].threw /\ ~sig["B"].threw /\ ~sig["C"].threw =>
              Range(publishableFiles) = Range(sig["B"].files) \cup Range(sig["C"].files))

\* C2 witness: signal A failed, B and C did not, and the joined list is theirs.
C2_Witness ==
    /\ pc = "joined"
    /\ sig["A"].threw /\ ~sig["B"].threw /\ ~sig["C"].threw
    /\ sig["B"].files # <<>> /\ sig["C"].files # <<>>
    /\ unpushed # {}

\* "present and parses as a positive integer"
IsPositiveInteger(raw) ==
    /\ raw.kind # "undefined"
    /\ ~parseInt(String(raw)).nan
    /\ parseInt(String(raw)).val > 0

\* C3: a document that passed the title guard is routed to Update exactly
\* when its dev_to_article_id is present and parses as a positive integer,
\* and to Create otherwise (absent, not a number, zero, negative).
C3_RoutingByPositiveId ==
    pc = "api" =>
        (cur.route = "update" <=> IsPositiveInteger(Get(matter(disk[cur.file]).data, IdKey)))

\* C4: in one invocation there is at most one createArticle or updateArticle
\* call per document, failed calls included.
C4_AtMostOneCall ==
    \A d \in Docs : Cardinality(CallsOf(d)) <= 1

\* C4 witness: the invocation is over and a call of it failed.
C4_Witness ==
    /\ pc = "done"
    /\ \E i \in 1..Len(apiLog) : ~apiLog[i].ok
    /\ Len(results) = 2

\* C5: a document whose outcome is updated, skipped or failed at the API has
\* the content it had when the invocation started and was never written; no
\* document is written more than once in an invocation.
C5_WriteOnlyOnCreate ==
    /\ \A d \in Docs : writes[d] <= 1
    /\ \A i \in 1..Len(results) :
         (results[i].action \in {"updated", "skipped"} \/ results[i].error = "api") =>
            /\ disk[results[i].file] = diskAtStart[results[i].file]
            /\ writes[results[i].file] = 0

\* C5 witness: a document was updated successfully and the invocation is over.
C5_Witness ==
    /\ pc = "done"
    /\ \E i \in 1..Len(results) : results[i].action = "updated"
    /\ \E i \in 1..Len(results) : results[i].action = "created"

\* C6: after a successful create the file holds the identifier createArticle
\* returned, every other header field as it was read, in the same order, and
\* the body as it was read.
C6_CreateStampsOnlyId ==
    \A i \in 1..Len(results) :
        results[i].action = "created" =>
            LET f == results[i].file IN
            /\ Get(disk[f].fm, IdKey) = Num(results[i].id)
            /\ \E c \in CallsOf(f) :
                 apiLog[c].op = "create" /\ apiLog[c].ok /\ apiLog[c].id = results[i].id
            /\ OtherFields(disk[f].fm) = OtherFields(diskAtStart[f].fm)
            /\ disk[f].body = diskAtStart[f].body

\* C6 witness: a document with a local image was created: the payload body
\* was rewritten, and the file had a malformed identifier before.
C6_Witness ==
    \E i \in 1..Len(results) :
        /\ results[i].action = "created"
        /\ \E c \in CallsOf(results[i].file) :
             apiLog[c].body # diskAtStart[results[i].file].body
        /\ \E j \in 1..Len(results) :
             /\ results[j].action = "created"
             /\ HasKey(diskAtStart[results[j].file].fm, IdKey)

\* C7: when createArticle fails the document's outcome is failed, with the
\* error, and its file is as it was: nothing was written.
C7_CreateFailureLeavesFile ==
    \A c \in 1..Len(apiLog) :
        (apiLog[c].op = "create" /\ ~apiLog[c].ok) =>
            LET f == apiLog[c].file IN
            /\ \E i \in ResultsOf(f) :
                 /\ results[i].action = "failed"
                 /\ ~results[i].success /\ ~results[i].skipped
                 /\ results[i].error = "api"
            /\ disk[f] = diskAtStart[f]
            /\ writes[f] = 0

\* C7 witness: a createArticle call failed.
C7_Witness ==
    \E c \in 1..Len(apiLog) : apiLog[c].op = "create" /\ ~apiLog[c].ok

\* C8: a candidate whose title is absent or empty is recorded as skipped
\* (not failed) and is not among the paths the finalizer stages.
C8_SkippedNeverStaged ==
    \A i \in 1..Len(results) :
        LET f == results[i].file IN
        /\ (~Truthy(Get(diskAtStart[f].fm, "title")) /\ results[i].error # "read") =>
              results[i].action = "skipped"
        /\ results[i].action = "skipped" => f \notin stagedByRun

\* C9: a header that holds a dev_to_article_id holds one after every step.
C9_IdNeverCleared ==
    [][\A d \in Docs :
          /\ HasKey(disk[d].fm, IdKey) => HasKey(disk'[d].fm, IdKey)
          /\ Truthy(Get(disk[d].fm, IdKey)) => Truthy(Get(disk'[d].fm, IdKey))]_vars

\* C9 witness: a file that already had the key was rewritten by a create.
C9_Witness ==
    \E d \in Docs :
        /\ HasKey(diskAtStart[d].fm, IdKey)
        /\ writes[d] = 1
        /\ disk[d] # diskAtStart[d]

\* C10: signal B of a later invocation does not report a document that an
\* earlier invocation created and stamped.
C10_StampedNotNewAgain ==
    (pc = "signals" /\ sig["B"].done) =>
        \A d \in stampedBefore : d \notin Range(sig["B"].files)

\* C10 witness: signal B ran in an invocation that follows a create, and
\* still reports another document.
C10_Witness ==
    /\ pc = "signals" /\ sig["B"].done /\ ~sig["B"].threw
    /\ stampedBefore # {}
    /\ sig["B"].files # <<>>

TerminalOutcomes == {"created", "updated", "skipped", "failed"}

FailedResults == {i \in 1..Len(results) : results[i].action = "failed"}

\* C11: the results are one per processed candidate, in candidate order, each
\* with one terminal outcome; a failure makes one result failed and no more,
\* and when the loop is over every candidate has its result.
C11_OneResultPerCandidate ==
    /\ Len(results) <= Len(publishableFiles)
    /\ \A i \in 1..Len(results) :
         /\ results[i].file = publishableFiles[i]
         /\ results[i].action \in TerminalOutcomes
         /\ results[i].action = "failed" <=> (~results[i].success /\ ~results[i].skipped)
         /\ results[i].action = "skipped" <=> results[i].skipped
         /\ results[i].action \in {"created", "updated"} <=> results[i].success
    /\ Cardinality(FailedResults) <= faults
    /\ pc \in {"load", "api", "write"} => Len(results) = idx - 1
    /\ pc \in {"add", "commit", "push", "done"} => Len(results) = Len(publishableFiles)

\* C11 witness: the first candidate failed at the read or at the API and the
\* second one was published.
C11_Witness ==
    /\ pc = "done"
    /\ Len(results) = 2
    /\ results[1].action = "failed" /\ results[1].error \in {"read", "api"}
    /\ results[2].action \in {"created", "updated"}

FallbackChain == <<"@{upstream}", "origin/main", "origin/master">>

RevParses(g) == SelectSeq(g, LAMBDA c : c.cmd = "rev-parse")
Diffs(g) == SelectSeq(g, LAMBDA c : c.cmd = "diff")

\* C12: signal A tries the upstream, origin/main and origin/master in this
\* order, a later one only after every earlier one failed; the diff is
\* against the first that succeeded, and when all three fail signal A throws
\* without a diff.
C12_StrictFallbackChain ==
    sig["A"].done =>
        LET g == sig["A"].git
            rp == RevParses(g)
            df == Diffs(g)
        IN /\ Len(rp) <= Len(FallbackChain)
           /\ \A k \in 1..Len(rp) :
                /\ rp[k].ref = FallbackChain[k]
                /\ k < Len(rp) => ~rp[k].ok
           /\ Len(df) <= 1
           /\ df # <<>> <=> (rp # <<>> /\ rp[Len(rp)].ok)
           /\ df # <<>> =>
                /\ g[Len(g)] = df[1]
                /\ df[1].ref = IF Len(rp) = 1 THEN UpstreamBranch ELSE FallbackChain[Len(rp)]
           /\ (Len(rp) = Len(FallbackChain) /\ ~rp[Len(rp)].ok) => sig["A"].threw

\* C12 witness: the upstream and origin/main failed and the diff against
\* origin/master returned.
C12_Witness ==
    /\ sig["A"].done /\ ~sig["A"].threw
    /\ Diffs(sig["A"].git) # <<>>
    /\ Diffs(sig["A"].git)[1].ref = "origin/master"
    /\ sig["A"].files # <<>>

AnyPublished == \E i \in 1..Len(results) : results[i].action \in {"created", "updated"}

\* C13: a git command is issued only in an invocation with a created or
\* updated outcome, and such an invocation does not end without git add.
C13_FinalizerIffPublished ==
    /\ gitLog # <<>> => AnyPublished
    /\ pc \in {"add", "commit", "push"} => AnyPublished
    /\ (pc = "done" /\ AnyPublished) => (gitLog # <<>> /\ gitLog[1] = "add")

\* C13 witness: the invocation is over, one candidate was skipped and the
\* other failed, and no git command was issued.
C13_Witness ==
    /\ pc = "done"
    /\ Len(results) = 2
    /\ \E i \in 1..2 : results[i].action = "skipped"
    /\ \E i \in 1..2 : results[i].action = "failed"
    /\ gitLog = <<>>

\* C14: the finalizer stops after git commit only when the commit failed with
\* something staged: a commit that finds nothing to commit counts as done,
\* no error is reported and git push follows.
C14_NothingToCommitIsSuccess ==
    (pc = "done" /\ gitLog = <<"add", "commit">>) => staged # {}

\* C15: no step of git add, git commit or git push, failed or not, changes
\* the results, the calls made to the remote service, the identifiers it
\* handed out or the files.
C15_NoRollback ==
    [][(pc \in {"add", "commit", "push"}) =>
          (results' = results /\ apiLog' = apiLog /\ nextId' = nextId /\ disk' = disk)]_vars

\* C15 witness: git push failed after a create, and the file still holds the
\* identifier of the result.
C15_Witness ==
    /\ pc = "done"
    /\ gitLog = <<"add", "commit", "push">>
    /\ unpushed # {}
    /\ \E i \in 1..Len(results) :
         /\ results[i].action = "created"
         /\ Get(disk[results[i].file].fm, IdKey) = Num(results[i].id)
         /\ disk[results[i].file] # diskAtStart[results[i].file]

RepoMissing == repoInfo.user = "" \/ repoInfo.repo = "" \/ repoInfo.branch = ""

\* C16: an invocation that finds no owner, repository or branch is over at
\* once: no signal has run, there is no candidate and no result, no call to
\* the remote service, no file written and no git command.
C16_AbortWithoutRepoInfo ==
    (run > 0 /\ RepoMissing) =>
        /\ pc = "done"
        /\ \A s \in Signals : ~sig[s].done
        /\ publishableFiles = <<>> /\ results = <<>>
        /\ apiLog = <<>>
        /\ \A d \in Docs : writes[d] = 0 /\ disk[d] = diskAtStart[d]
        /\ gitLog = <<>>

\* C16 witness: the second invocation found no repository information, after
\* a first one that created an article.
C16_Witness ==
    /\ run = 2 /\ RepoMissing
    /\ stampedBefore # {}
    /\ dirty \cup staged \cup unpushed # {}

\* C17: in a repository where the comparison branch cannot be determined, an
\* invocation makes no create or update call and writes no file.
C17_NoBranchAbortsBatch ==
    /\ apiLog = <<>>
    /\ \A d \in Docs : writes[d] = 0

\* C17, amended: where the comparison branch cannot be determined, signal A
\* throws without issuing a diff and adds no candidate; the resolver does not
\* throw, and the candidate list is what signals B and C report.
C17_NoBranchDegradesSignalA ==
    /\ pc # "threw"
    /\ sig["A"].done =>
         /\ sig["A"].threw /\ sig["A"].files = <<>>
         /\ Diffs(sig["A"].git) = <<>>
         /\ Len(RevParses(sig["A"].git)) = Len(FallbackChain)
    /\ pc = "joined" =>
         Range(publishableFiles) =
            Range(Caught(sig["B"])) \cup Range(Caught(sig["C"]))

\* C17 witness: with no comparison branch, an invocation created one article
\* and updated another.
C17_Witness ==
    /\ pc = "done"
    /\ \E i \in 1..Len(results) : results[i].action = "created"
    /\ \E i \in 1..Len(results) : results[i].action = "updated"
    /\ \E d \in Docs : writes[d] = 1

\* C18: an invocation that ends because the repository information is
\* missing, a resolution-level error, ends with a non-zero exit status.
C18_ExitStatusReflectsResolution ==
    (pc = "done" /\ run > 0 /\ RepoMissing) =>
        publishHandler(publishArticleOutcome).exitCode # 0

\* C19: one candidate at a time.  While a call or a write is under way it is
\* for the candidate at idx and every earlier candidate has its result;
\* otherwise nothing is under way; every call made so far belongs to a
\* candidate that has its result, except the call whose write is under way;
\* the calls were made in candidate order.
C19_StrictlySequential ==
    /\ pc \in {"api", "write"} =>
         /\ idx \in 1..Len(publishableFiles)
         /\ cur.file = publishableFiles[idx]
         /\ Len(results) = idx - 1
    /\ pc \notin {"api", "write"} => cur = NoCur
    /\ \A c \in 1..Len(apiLog) :
         \/ ResultsOf(apiLog[c].file) # {}
         \/ pc = "write" /\ c = Len(apiLog) /\ apiLog[c].file = cur.file
    /\ \A d \in Docs : writes[d] > 0 => ResultsOf(d) # {}
    /\ \A c, e \in 1..Len(apiLog) :
         c < e => \E i, j \in 1..Len(publishableFiles) :
                     /\ i < j
                     /\ publishableFiles[i] = apiLog[c].file
                     /\ publishableFiles[j] = apiLog[e].file

\* C19 witness: the write of the second candidate is under way after the
\* first candidate was created and written.
C19_Witness ==
    /\ pc = "write" /\ idx = 2
    /\ Len(apiLog) = 2
    /\ results[1].action = "created"
    /\ writes[results[1].file] = 1

\* "absent or fails to parse as an integer"
AbsentOrNotInteger(raw) == raw.kind = "undefined" \/ parseInt(String(raw)).nan

\* C20: when every file could be read, signal B reports exactly the
\* documents whose dev_to_article_id is absent or does not parse as an
\* integer.
C20_SignalBAbsentOrUnparsable ==
    (pc = "signals" /\ sig["B"].done /\ ~sig["B"].threw /\ faults = 0) =>
        \A d \in Docs :
            d \in Range(sig["B"].files) <=> AbsentOrNotInteger(Get(disk[d].fm, IdKey))

\* the code marks the entry untracked, modified, added or renamed
Marked(code) == code = <<"?", "?">> \/ \E i \in 1..Len(code) : code[i] \in {"M", "A", "R"}

\* the entries signal C is to report
Reported(entries) == SelectSeq(entries, LAMBDA e : Marked(e.code) /\ EndsWith(e.path, DotMd))

C22_QuotesRemoved ==
    sig["C"].done =>
        /\ \A k \in 1..Len(sig["C"].files) :
             LET f == sig["C"].files[k] IN
             /\ ~Includes(f, Quote)
             /\ \E i \in 1..Len(sig["C"].stdout) :
                  LET line == sig["C"].stdout[i] IN
                  \/ EndsWith(line, <<Quote>> \o f \o <<Quote>>)
                  \/ EndsWith(line, <<" ">> \o f)
        /\ \A i \in 1..Len(sig["C"].stdout) :
             (/\ EndsWith(sig["C"].stdout[i], <<Quote>>)
              /\ Marked(sig["C"].entries[i].code)
              /\ EndsWith(sig["C"].entries[i].path, DotMd))
                => \E k \in 1..Len(sig["C"].files) :
                      sig["C"].files[k] = sig["C"].entries[i].path

\* C22 witness: the line ?? "articles/my a.md" was read.
C22_Witness ==
    /\ sig["C"].done
    /\ sig["C"].stdout = <<<<"?", "?", " ", Quote>> \o MdSpaced \o <<Quote>>>>
    /\ sig["C"].files = <<MdSpaced>>

\* a command or the parsing of owner and repository failed
RepoInfoFailure(e) ==
    \/ ~e.urlOk
    \/ ~e.branchOk
    \/ e.url = "other" /\ e.env # "owner/repo"

\* C23: getRepoInfo does not throw.  When the remote-URL command or the
\* branch command fails every field is absent; when owner and repository
\* cannot be determined they are absent; publishArticle then stops at its
\* check of the fields.  Without a failure no field of the three is absent.
C23_RepoInfoNeverThrows ==
    run > 0 =>
        LET e == repoInfo.met IN
        /\ ~repoInfo.threw
        /\ (~e.urlOk \/ ~e.branchOk) =>
              (repoInfo.user = "" /\ repoInfo.repo = "" /\ repoInfo.branch = ""
                 /\ repoInfo.remoteBranch = "")
        /\ RepoInfoFailure(e) => (repoInfo.user = "" /\ repoInfo.repo = "" /\ pc = "done")
        /\ ~RepoInfoFailure(e) =>
              (repoInfo.user # "" /\ repoInfo.repo # "" /\ repoInfo.branch # ""
                 /\ pc = "signals")

\* C23 witness: after an aborted invocation, the second one met a URL it
\* cannot parse and no GITHUB_REPOSITORY, with a working branch command.
C23_Witness ==
    /\ run = 2
    /\ repoInfo.met.urlOk /\ repoInfo.met.url = "other" /\ repoInfo.met.env = "unset"
    /\ repoInfo.met.branchOk
    /\ repoInfo.branch = ""


\* C24 as stated: when owner or repository name cannot be determined the
\* batch goes on, so an invocation that ends with documents changed in the
\* working tree has a result for them.
C24_CandidatesStillProcessed ==
    (run > 0 /\ RepoMissing /\ pc = "done" /\ dirty # {}) => results # <<>>

\* C24, amended: without owner, repository or branch the rewriting of image
\* references returns every body unchanged, but publishArticle stops before
\* resolving candidates: no document is processed, and the bodies that are
\* sent to the remote service are always rewritten with complete information.
C24_NoOpRewritingButAborted ==
    /\ (run > 0 /\ RepoMissing) =>
          /\ \A d \in Docs :
                convertLocalPathsToGitHubUrls(matter(disk[d]).content, repoInfo)
                    = matter(disk[d]).content
          /\ pc = "done" /\ results = <<>> /\ apiLog = <<>>
    /\ (pc \notin {"idle", "done"}) => ~RepoMissing

\* C24 witness: an invocation without repository information has ended while
\* a changed draft with a local image reference sits in the working tree.
C24_Witness ==
    /\ run > 0 /\ RepoMissing /\ pc = "done"
    /\ \E d \in dirty :
         /\ disk[d] = Draft
         /\ \E k \in 1..Len(matter(disk[d]).content) :
               matter(disk[d]).content[k] = "img_local"


\* what the finalization's gitPush met and ran, once it has run
Pushed == pc = "done" /\ Len(gitLog) = 3
PushCmds == SelectSeq(gitLog[3].cmds, LAMBDA c : c.cmd = "push")
PushMet == gitLog[3].met
OnBranch == PushMet.headOk /\ PushMet.currentBranch # "HEAD"

\* C25: within one finalization at most one push command is issued, and a
\* failed push is reported without a further attempt.
C25_AtMostOnePush ==
    Pushed => Len(PushCmds) <= 1

\* C26 as stated: gitPush pushes to the configured upstream, and without one
\* it tries origin/main, then origin/master after a failure, then fails.
C26_FallsBackToDefaultBranches ==
    (Pushed /\ OnBranch) =>
        IF Len(PushMet.remoteParts) >= 2
        THEN PushCmds[1].ref = PushMet.remoteParts
        ELSE /\ PushCmds[1].ref = <<"origin", "main">>
             /\ ~PushCmds[1].ok =>
                   /\ Len(PushCmds) = 2
                   /\ PushCmds[2].ref = <<"origin", "master">>
                   /\ gitLog[3].threw = ~PushCmds[2].ok

\* C26, amended: with an upstream configured gitPush pushes the current
\* branch to the upstream's remote and, if that push fails, to origin;
\* without an upstream it pushes the current branch to origin, once; when
\* the current branch is unknown or HEAD is detached it runs a plain
\* git push. It throws exactly when its last push failed, and origin/main
\* and origin/master are targets only when they carry the current branch's name.
C26_PushesCurrentBranch ==
    Pushed =>
        /\ Len(PushCmds) >= 1
        /\ gitLog[3].threw = ~PushCmds[Len(PushCmds)].ok
        /\ IF ~OnBranch
           THEN Len(PushCmds) = 1 /\ PushCmds[1].ref = <<>>
           ELSE IF Len(PushMet.remoteParts) >= 2
           THEN /\ PushCmds[1].ref = <<PushMet.remoteParts[1], PushMet.currentBranch>>
                /\ IF PushCmds[1].ok
                   THEN Len(PushCmds) = 1
                   ELSE /\ Len(PushCmds) = 2
                        /\ PushCmds[2].ref = <<"origin", PushMet.currentBranch>>
           ELSE /\ Len(PushCmds) = 1
                /\ PushCmds[1].ref = <<"origin", PushMet.currentBranch>>

\* C26 witness: on branch topic with no upstream configured, the push went
\* to origin topic and failed.
C26_Witness ==
    /\ Pushed /\ OnBranch
    /\ PushMet.currentBranch = "topic" /\ PushMet.remoteParts = <<>>
    /\ gitLog[3].threw
    /\ PushCmds = <<Cmd("push", <<"origin", "topic">>, FALSE)>>


\* the results that count as published, by position
PublishedAt == {i \in 1..Len(results) : results[i].action \in {"created", "updated"}}

\* C27: the body of the commit message has one line for each created or
\* updated document and no other, in the order of processing, and each line
\* gives that document's basename, identifier, action keyword and URL.
C27_CommitMessageLines ==
    Len(gitLog) >= 2 =>
        LET lines == gitLog[2].message.lines
        IN /\ Len(lines) = Cardinality(PublishedAt)
           /\ \A i \in PublishedAt :
                 lines[Cardinality({j \in PublishedAt : j <= i})] =
                     [basename |-> basename(results[i].file),
                      id |-> results[i].id,
                      action |-> results[i].action,
                      url |-> ArticleUrl(results[i].id)]

\* C27 witness: a commit whose message has two lines, an update then a create.
C27_Witness ==
    /\ Len(gitLog) >= 2
    /\ Len(gitLog[2].message.lines) = 2
    /\ gitLog[2].message.lines[1].action = "updated"
    /\ gitLog[2].message.lines[2].action = "created"

\* C27 witness: a commit after a document was skipped or failed and the next
\* one was created; the message has the one line.
C27_WitnessOmitted ==
    /\ Len(gitLog) >= 2
    /\ Len(results) = 2
    /\ results[1].action \in {"skipped", "failed"}
    /\ results[2].action = "created"
    /\ Len(gitLog[2].message.lines) = 1


\* the identifier a document carried on disk when this invocation started
IdAtStart(d) == Get(diskAtStart[d].fm, IdKey)

\* C28: a document that an earlier invocation created and stamped carries an
\* identifier the remote service assigned, and a later invocation never
\* passes it to createArticle: every call it makes for the document is an
\* update of that identifier, and no result marks it created again.
C28_StampedRoutesToUpdate ==
    \A d \in stampedBefore :
        /\ IdAtStart(d).kind = "num"
        /\ IdAtStart(d).num \in FirstNewId..(nextId - 1)
        /\ \A k \in 1..Len(apiLog) :
              apiLog[k].file = d =>
                  apiLog[k].op = "update" /\ apiLog[k].id = IdAtStart(d).num
        /\ (cur.file = d /\ pc \in {"api", "write"}) =>
              cur.route = "update" /\ cur.articleId.val = IdAtStart(d).num
        /\ \A i \in 1..Len(results) :
              results[i].file = d => results[i].action # "created"

\* C28 witness: the second invocation updated a document that the first one
\* had created and stamped.
C28_Witness ==
    /\ run = 2
    /\ \E d \in stampedBefore :
         /\ \E k \in 1..Len(apiLog) :
               apiLog[k].file = d /\ apiLog[k].op = "update" /\ apiLog[k].ok
         /\ \E i \in 1..Len(results) :
               results[i].file = d /\ results[i].action = "updated"


\* C29: a document whose recorded outcome is failed had no successful create
\* or update call in this invocation.
C29_FailedHasNoRemoteEffect ==
    \A i \in 1..Len(results) :
        results[i].action = "failed" =>
            \A k \in 1..Len(apiLog) :
                apiLog[k].file = results[i].file => ~apiLog[k].ok

\* the successful createArticle calls of this invocation
CreatesNow == {k \in 1..Len(apiLog) : apiLog[k].op = "create" /\ apiLog[k].ok}

\* the remote articles that earlier invocations created
CreatedBefore == nextId - FirstNewId - Cardinality(CreatesNow)

\* C30: where only the first document is new.  An interruption between
\* createArticle and the write leaves the file without identifier; a later
\* invocation that processes the file as it was left routes it to Create
\* and, if the call succeeds, a further remote article with a new identifier
\* exists for the one document.  A file that starts an invocation with the
\* identifier written is routed to Update with that identifier.
C30_DuplicateAfterInterruptedWrite ==
    LET d == DocOrder[1]
        processing == cur.file = d /\ pc \in {"api", "write"}
    IN /\ pc = "killed" =>
             /\ cur.file = d /\ disk[d] = diskAtStart[d]
             /\ apiLog[Len(apiLog)] = [op |-> "create", file |-> d, id |-> nextId - 1,
                                       body |-> cur.markdownForDevto, ok |-> TRUE]
             /\ \A i \in 1..Len(results) : results[i].file # d
       /\ (CreatedBefore > 0 /\ ~HasKey(diskAtStart[d].fm, IdKey)) =>
             /\ processing => cur.route = "create"
             /\ \A k \in CreatesNow :
                   apiLog[k].file = d /\ apiLog[k].id >= FirstNewId + CreatedBefore
       /\ (CreatedBefore > 0 /\ HasKey(diskAtStart[d].fm, IdKey)) =>
             /\ processing =>
                   cur.route = "update" /\ Num(cur.articleId.val) = IdAtStart(d)
             /\ CreatesNow = {}

\* C30 witness: the first invocation was interrupted after creating article
\* 11 for the document; the second one has created article 12 for it.
C30_Witness ==
    /\ run = 2
    /\ CreatedBefore = 1
    /\ ~HasKey(diskAtStart[DocOrder[1]].fm, IdKey)
    /\ faults = 0
    /\ \E k \in CreatesNow :
         apiLog[k].file = DocOrder[1] /\ apiLog[k].id = FirstNewId + 1


\* the git commands of a finalization, in the only order they can have
FinalizerOrder == <<"add", "commit", "push">>

\* C31: the finalizer stages, then commits, then pushes, each at most once;
\* it starts only when every candidate has its terminal outcome, and from
\* then on no file is written; a failed git add or a failed git commit ends
\* the finalizer, so that nothing is committed or pushed after it.
C31_StageCommitPush ==
    [][/\ gitLog' = SubSeq(FinalizerOrder, 1, Len(gitLog'))
       /\ (gitLog' # gitLog /\ gitLog' # <<>>) =>
             /\ gitLog' = Append(gitLog, pc)
             /\ Len(results) = Len(publishableFiles)
             /\ \A i \in 1..Len(results) : results[i].action \in TerminalOutcomes
       /\ (gitLog # <<>> /\ gitLog' # <<>>) =>
             (disk' = disk /\ writes' = writes /\ results' = results)
       /\ (pc \in {"add", "commit"} /\ faults' # faults) =>
             (pc' = "done" /\ gitLog' = Append(gitLog, pc))
       /\ (pc' = "commit") => (pc = "add" /\ faults' = faults)
       /\ (pc' = "push") => (pc = "commit" /\ faults' = faults)]_vars

\* C31 witness: git add failed after a file had been written; the invocation
\* is over with neither commit nor push.
C31_Witness ==
    /\ pc = "done" /\ gitLog = <<"add">> /\ faults = 1
    /\ \E d \in Docs : writes[d] > 0 /\ disk[d] # diskAtStart[d]
    /\ dirty # {}


\* the title a document had on disk when this invocation started
TitleAtStart(d) == Get(matter(diskAtStart[d]).data, "title")

\* C32: a document without a title is skipped before anything else is done
\* with it: no create or update call is made for it, its file is not written,
\* and a rewritten body exists only for a document whose title passed the guard.
C32_TitleGuardFirst ==
    /\ \A i \in 1..Len(results) :
         results[i].action = "skipped" =>
             LET d == results[i].file
             IN /\ ~Truthy(TitleAtStart(d))
                /\ \A k \in 1..Len(apiLog) : apiLog[k].file # d
                /\ writes[d] = 0 /\ disk[d] = diskAtStart[d]
                /\ cur.file # d
    /\ \A k \in 1..Len(apiLog) : Truthy(TitleAtStart(apiLog[k].file))
    /\ \A d \in Docs : writes[d] > 0 => Truthy(TitleAtStart(d))
    /\ (cur # NoCur) => Truthy(Get(cur.frontMatter, "title"))

\* C32 witness: a document without title was skipped and the one after it
\* went through a call to the remote service.
C32_Witness ==
    /\ Len(results) = 2
    /\ results[1].action = "skipped"
    /\ results[2].action \in {"created", "updated"}
    /\ Len(apiLog) = 1 /\ apiLog[1].file = results[2].file
    /\ \E k \in 1..Len(matter(disk[results[1].file]).content) :
         matter(disk[results[1].file]).content[k] = "img_local"


\* path.dirname: what stands before the last separator
dirname(path) ==
    LET seps == {i \in 1..Len(path) : path[i] = "/"}
    IN IF seps = {} THEN <<>>
       ELSE SubSeq(path, 1, (CHOOSE i \in seps : \A j \in seps : j <= i) - 1)

\* C33: every path signal C reports has the content directory itself as its
\* containing directory; a document in a subdirectory of it is not reported.
C33_OnlyContentDirItself ==
    sig["C"].done =>
        \A i \in 1..Len(sig["C"].files) : dirname(sig["C"].files[i]) = <<ArticlesDir>>


\* C37: a path that signal C reports does not come from an entry whose
\* status code contains D: if such an entry names it, another entry of the
\* same output, without D, names it too.
C37_DeletedNeverReported ==
    sig["C"].done =>
        \A i \in 1..Len(sig["C"].entries) :
            LET e == sig["C"].entries[i]
            IN (Includes(e.code, "D") /\ e.path \in Range(sig["C"].files)) =>
                  \E j \in 1..Len(sig["C"].entries) :
                      /\ sig["C"].entries[j].path = e.path
                      /\ ~Includes(sig["C"].entries[j].code, "D")


\* C34: while the signals run and when they are joined, the documents are as
\* they were when the invocation started, and what each signal returned is
\* what the repository shows now: the diff of signal A against the fetched
\* branch, documents without identifier for signal B, the changed paths for
\* signal C.  No signal has changed what another one read, so the joined
\* list is the same in whatever order the three settled.
C34_SignalsIndependent ==
    (pc \in {"signals", "joined", "threw"}) =>
        /\ disk = diskAtStart
        /\ (sig["A"].done /\ ~sig["A"].threw) => sig["A"].files = SeqOf(unpushed)
        /\ (sig["B"].done /\ ~sig["B"].threw) =>
              /\ \A d \in Range(sig["B"].files) : ~HasKey(disk[d].fm, IdKey) \/ ~Truthy(Get(disk[d].fm, IdKey))
              /\ faults = 0 => \A d \in Docs : ~HasKey(disk[d].fm, IdKey) => d \in Range(sig["B"].files)
        /\ (sig["C"].done /\ ~sig["C"].threw) => sig["C"].files = SeqOf(dirty \cup staged)
        /\ (pc = "joined") =>
              /\ Range(publishableFiles) =
                    UNION {Range(sig[s].files) : s \in {t \in Signals : ~sig[t].threw}}
              /\ Len(publishableFiles) = Cardinality(Range(publishableFiles))

\* C34 witness: the three signals returned, each reported a document, signal
\* A another one than signal C, and the two documents are joined.
C34_Witness ==
    /\ pc = "joined"
    /\ \A s \in Signals : ~sig[s].threw /\ sig[s].files # <<>>
    /\ sig["A"].files # sig["C"].files
    /\ Len(publishableFiles) = 2


\* where the commands of one kind stand among the commands of signal A
Positions(g, cmd) == {i \in 1..Len(g) : g[i].cmd = cmd}

\* C35: signal A begins with one fetch; the commands that resolve the
\* comparison branch come after it and before the diff; the diff is issued
\* at most once, last, and only after a successful fetch and a successful
\* resolution; after a failed fetch no other command is issued and signal A
\* contributes nothing.
C35_FetchResolveDiff ==
    sig["A"].done =>
        LET g == sig["A"].git
        IN /\ Positions(g, "fetch") = {1}
           /\ Positions(g, "diff") \subseteq {Len(g)}
           /\ Positions(g, "rev-parse") = {i \in 2..Len(g) : g[i].cmd # "diff"}
           /\ Positions(g, "diff") # {} =>
                 /\ g[1].ok
                 /\ Len(g) >= 3 /\ g[Len(g) - 1].cmd = "rev-parse" /\ g[Len(g) - 1].ok
           /\ ~g[1].ok =>
                 /\ Len(g) = 1
                 /\ sig["A"].threw
                 /\ Caught(sig["A"]) = <<>>

\* C35 witness: in a repository with unpushed documents the fetch failed.
C35_Witness ==
    /\ sig["A"].done /\ sig["A"].threw
    /\ sig["A"].git = <<Cmd("fetch", "origin", FALSE)>>
    /\ unpushed # {}


\* C36: an invocation that has started comes to its end, whatever fails on
\* the way: the early return without repository information or without
\* candidates, or the summary after the loop and the git operations.
C36_AlwaysTerminates ==
    [](pc \notin {"idle", "done"} => <>(pc = "done"))

\* C36 witness: an invocation is over whose push failed after a document was
\* created: the failure was logged and the summary reached.
C36_Witness ==
    /\ pc = "done" /\ faults = 1
    /\ gitLog = <<"add", "commit", "push">>
    /\ unpushed # {}
    /\ \E i \in 1..Len(results) : results[i].action = "created"


\* C38: whatever the form of the remote URL, SSH or HTTPS with or without
\* .git, and whatever the owner and the repository name, the patterns match
\* and give that owner and that name.
C38_SameOwnerAndRepo ==
    run > 0 =>
        /\ repoInfo.matched.ok
        /\ repoInfo.matched.user = repoInfo.met.owner
        /\ repoInfo.matched.repo = repoInfo.met.name

=============================================================================
